---- MODULE Spec2Model ----
(***************************************************************************)
(* A model of the agentpdf server (src/server.ts): the in-memory vector    *)
(* store, the text chunker, cosine similarity, the /api/upload indexing    *)
(* handler and the /api/chat retrieval handler; and of handleFileUpload of  *)
(* the streaming client (src/unnamed/part_000), which reads the upload's   *)
(* response body as lines of JSON status records.                          *)
(*                                                                         *)
(* Texts are TLA+ strings (sequences of characters).  Embeddings are       *)
(* integer vectors of dimension 2 whose magnitude is an integer, so that   *)
(* Math.sqrt and the product of the two magnitudes are exact in IEEE-754   *)
(* doubles and a score is the (correctly rounded) rational                 *)
(* dot / (|A| * |B|), kept here as a reduced fraction.                     *)
(***************************************************************************)
EXTENDS Integers, Sequences, FiniteSets, TLC

VARIABLES
    vectorStore,   \* server.ts:21  the module-level array of VectorDocument; the field
                   \* run of a record is history: the upload request that pushed it
    up,            \* one /api/upload request per element of Uploads
    chat,          \* one /api/chat request per element of Chats
    chunker,       \* one call frame of chunkText, stepped one loop iteration at a time
    retrieval,     \* one run of the retrieval step (lines 126-135) on a given store
    client         \* one call of the streaming client's handleFileUpload

vars == <<vectorStore, up, chat, chunker, retrieval, client>>

----------------------------------------------------------------------------
(* Bounds of the model *)

\* longest text handed to the stepped chunkText call
MaxLen == 4
\* largest chunkSize handed to the stepped chunkText call
MaxChunkSize == 3
\* largest overlap handed to the stepped chunkText call (reaches overlap >= chunkSize)
MaxOverlap == 3
\* iterations after which a chunkText call that never ends is cut off
MaxIter == 6
\* number of windows of the longest uploaded document
MaxWindows == 2
\* largest store the retrieval step is applied to
MaxStore == 4

(* Program constants *)

\* chunkText's default chunkSize
DefaultChunkSize == 1000
\* chunkText's default overlap
DefaultOverlap == 200
\* the k of slice(0, 3)
TopK == 3

Max(a, b) == IF a >= b THEN a ELSE b
Min(a, b) == IF a <= b THEN a ELSE b

----------------------------------------------------------------------------
(* Strings *)

Alphabet == {"a", " "}
Whitespace == {" "}

RECURSIVE Rep(_, _)
\* the string made of n copies of the string c
Rep(c, n) ==
    IF n = 0 THEN ""
    ELSE IF n % 2 = 0 THEN LET h == Rep(c, n \div 2) IN h \o h
    ELSE c \o Rep(c, n - 1)

RECURSIVE StringsOfLen(_)
StringsOfLen(n) ==
    IF n = 0 THEN {""}
    ELSE {s \o c : s \in StringsOfLen(n - 1), c \in Alphabet}

\* the second argument taken as a length, as substr takes it
SliceAsSubstr(s, b, e) ==
    LET from == IF b < 0 THEN Max(Len(s) + b, 0) ELSE Min(b, Len(s))
        to   == Min(from + e, Len(s))
    IN  IF to <= from THEN "" ELSE SubSeq(s, from + 1, to)

\* String.prototype.slice(b, e): negative arguments count from the end
Slice(s, b, e) ==
    LET len  == Len(s)
        from == IF b < 0 THEN Max(len + b, 0) ELSE Min(b, len)
        to   == IF e < 0 THEN Max(len + e, 0) ELSE Min(e, len)
    IN  IF to <= from THEN "" ELSE SubSeq(s, from + 1, to)

\* the chunk is tested without trimming it
IsBlankUntrimmed(s) == Len(s) = 0

\* chunk.trim().length === 0
IsBlank(s) == \A k \in 1..Len(s) : SubSeq(s, k, k) \in Whitespace

----------------------------------------------------------------------------
(* chunkText, server.ts:38-46 *)

\* the call frame on entry: const chunks = []; let i = 0
ChunkFrame(text, chunkSize, overlap) ==
    [text |-> text, chunkSize |-> chunkSize, overlap |-> overlap,
     i |-> 0, chunks |-> <<>>, starts |-> <<>>, pc |-> "loop"]

\* the loop test: while (i < text.length)
ChunkLoopTest(f) == f.i < Len(f.text)

\* the start advances by chunkSize + overlap
ChunkLoopBodyGap(f) ==
    [f EXCEPT !.chunks = Append(@, Slice(f.text, f.i, f.i + f.chunkSize)),
              !.starts = Append(@, f.i),
              !.i = @ + (f.chunkSize + f.overlap)]

\* one iteration: chunks.push(text.slice(i, i + chunkSize)); i += chunkSize - overlap
\* (starts is history: the offset each window was cut at)
ChunkLoopBody(f) ==
    [f EXCEPT !.chunks = Append(@, Slice(f.text, f.i, f.i + f.chunkSize)),
              !.starts = Append(@, f.i),
              !.i = @ + (f.chunkSize - f.overlap)]

RECURSIVE ChunkRun(_)
ChunkRun(f) == IF ChunkLoopTest(f) THEN ChunkRun(ChunkLoopBody(f)) ELSE f

\* the value chunkText returns (for chunkSize > overlap, where the loop ends)
chunkText(text, chunkSize, overlap) == ChunkRun(ChunkFrame(text, chunkSize, overlap)).chunks

\* the frame before any call
NoFrame == [text |-> "", chunkSize |-> 0, overlap |-> 0,
            i |-> 0, chunks |-> <<>>, starts |-> <<>>, pc |-> "none"]

\* the 2000-character document of the scenario
ScenarioText == Rep("A", 2 * DefaultChunkSize)

\* the arguments the stepped call is given
ChunkInputs ==
    {<<t, cs, ov>> : t \in UNION {StringsOfLen(n) : n \in 0..MaxLen},
                     cs \in 1..MaxChunkSize, ov \in 0..MaxOverlap}
    \cup {<<ScenarioText, DefaultChunkSize, DefaultOverlap>>}

\* one loop iteration of the call
ChunkStep ==
    /\ chunker.pc = "loop"
    /\ ChunkLoopTest(chunker)
    /\ Len(chunker.chunks) < MaxIter
    /\ chunker' = ChunkLoopBody(chunker)
    /\ UNCHANGED <<vectorStore, up, chat, retrieval, client>>

\* the loop test fails: return chunks
ChunkReturn ==
    /\ chunker.pc = "loop"
    /\ ~ChunkLoopTest(chunker)
    /\ chunker' = [chunker EXCEPT !.pc = "returned"]
    /\ UNCHANGED <<vectorStore, up, chat, retrieval, client>>

----------------------------------------------------------------------------
(* cosineSimilarity, server.ts:24-35 *)

\* the embedding vectors of the model: the zero vector, two parallel vectors,
\* their opposite, and a vector parallel to none of them
Vecs == {<<0, 0>>, <<3, 4>>, <<6, 8>>, <<4, 3>>, <<-3, -4>>}

Abs(n) == IF n < 0 THEN -n ELSE n

RECURSIVE Gcd(_, _)
Gcd(a, b) == IF b = 0 THEN a ELSE Gcd(b, a % b)

\* the number n / d, d > 0, as a reduced fraction
Frac(n, d) ==
    LET g == Gcd(Abs(n), d) IN [num |-> n \div g, den |-> d \div g]

NaN == [num |-> 0, den |-> 0]

\* Math.sqrt, on the squares of integers
Sqrt(n) == CHOOSE r \in 0..n : r * r = n

\* the JavaScript quotient n / d for d >= 0: 0 / 0 is NaN
Div(n, d) == IF d = 0 THEN NaN ELSE Frac(n, d)

RECURSIVE SumTo(_, _, _, _)
\* the sum of a[k] * b[k] for k = 1..n
SumTo(a, b, n, acc) ==
    IF n = 0 THEN acc ELSE SumTo(a, b, n - 1, acc + a[n] * b[n])

\* without the zero-norm return
cosineSimilarityNoGuard(vecA, vecB) ==
    LET dotProduct == SumTo(vecA, vecB, Len(vecA), 0)
        normA      == SumTo(vecA, vecA, Len(vecA), 0)
        normB      == SumTo(vecB, vecB, Len(vecA), 0)
    IN  Div(dotProduct, Sqrt(normA) * Sqrt(normB))

cosineSimilarity(vecA, vecB) ==
    LET dotProduct == SumTo(vecA, vecB, Len(vecA), 0)
        normA      == SumTo(vecA, vecA, Len(vecA), 0)
        normB      == SumTo(vecB, vecB, Len(vecA), 0)
    IN  IF normA = 0 \/ normB = 0 THEN Frac(0, 1)
        ELSE Div(dotProduct, Sqrt(normA) * Sqrt(normB))

IsNaN(x) == x.den = 0

\* x < y on scores; every comparison with NaN is false
Less(x, y) == ~IsNaN(x) /\ ~IsNaN(y) /\ x.num * y.den < y.num * x.den

----------------------------------------------------------------------------
(* the retrieval step of /api/chat, server.ts:126-135 *)

\* ascending instead of descending
CompareAsc(a, b) ==
    IF Less(b.score, a.score) THEN 1 ELSE IF Less(a.score, b.score) THEN -1 ELSE 0

\* the sign of the comparator (a, b) => b.score - a.score (NaN counts as 0)
Compare(a, b) ==
    IF Less(a.score, b.score) THEN 1 ELSE IF Less(b.score, a.score) THEN -1 ELSE 0

RECURSIVE InsertUnstable(_, _)
\* puts x before the elements it ties with
InsertUnstable(x, s) ==
    IF s = <<>> THEN <<x>>
    ELSE IF Compare(Head(s), x) < 0 THEN <<Head(s)>> \o InsertUnstable(x, Tail(s))
    ELSE <<x>> \o s

RECURSIVE InsertSorted(_, _)
\* x, which came after every element of the sorted s, goes behind the elements
\* the comparator does not put after it
InsertSorted(x, s) ==
    IF s = <<>> THEN <<x>>
    ELSE IF Compare(Head(s), x) <= 0 THEN <<Head(s)>> \o InsertSorted(x, Tail(s))
    ELSE <<x>> \o s

RECURSIVE SortFrom(_, _)
SortFrom(s, sorted) ==
    IF s = <<>> THEN sorted ELSE SortFrom(Tail(s), InsertSorted(Head(s), sorted))

\* Array.prototype.sort with the comparator: a stable sort
Sort(s) == SortFrom(s, <<>>)

\* vectorStore.map(doc => ({...doc, score: cosineSimilarity(queryEmbedding, doc.embedding)}))
Scored(store, queryEmbedding) ==
    [k \in 1..Len(store) |->
        [id |-> store[k].id, text |-> store[k].text, embedding |-> store[k].embedding,
         run |-> store[k].run,
         score |-> cosineSimilarity(queryEmbedding, store[k].embedding)]]

\* scoredChunks.slice(0, 2)
TopChunksShort(scoredChunks) == SubSeq(scoredChunks, 1, Min(TopK - 1, Len(scoredChunks)))

\* scoredChunks.slice(0, 3)
TopChunks(scoredChunks) == SubSeq(scoredChunks, 1, Min(TopK, Len(scoredChunks)))

Separator == "\n\n---\n\n"

RECURSIVE Join(_)
\* topChunks.map(c => c.text).join(Separator)
Join(s) ==
    IF s = <<>> THEN ""
    ELSE IF Len(s) = 1 THEN s[1].text
    ELSE s[1].text \o Separator \o Join(Tail(s))

\* lines 126-135: the locals of the vector search and the context they give
Retrieve(store, queryEmbedding) ==
    LET scoredChunks == Sort(Scored(store, queryEmbedding))
        topChunks    == TopChunks(scoredChunks)
    IN  [scoredChunks |-> scoredChunks, topChunks |-> topChunks, context |-> Join(topChunks)]

\* the step before it is run
NoRetrieval == [pc |-> "none", store |-> <<>>, queryEmbedding |-> <<>>,
                scoredChunks |-> <<>>, topChunks |-> <<>>, context |-> ""]

\* the step run on retrieval.store with retrieval.queryEmbedding
RetrieveStep ==
    /\ retrieval.pc = "called"
    /\ LET r == Retrieve(retrieval.store, retrieval.queryEmbedding)
       IN  retrieval' = [retrieval EXCEPT !.pc = "returned",
                                          !.scoredChunks = r.scoredChunks,
                                          !.topChunks = r.topChunks,
                                          !.context = r.context]
    /\ UNCHANGED <<vectorStore, up, chat, chunker, client>>

----------------------------------------------------------------------------
(* The requests and the documents *)

Uploads == {"u1", "u2"}
Chats == {"c1"}

\* the distance between two window starts under the defaults
DefaultStep == DefaultChunkSize - DefaultOverlap

\* req.file: absent, or a PDF the extractor reads the text d from
NoFile == [present |-> FALSE, text |-> ""]
File(d) == [present |-> TRUE, text |-> d]

\* a document of n windows, none of them blank
DocFull(n) == Rep("a", (n - 1) * DefaultStep + 100)
\* a document of three windows whose second window is all whitespace
DocGap == Rep("b", DefaultStep) \o Rep(" ", DefaultChunkSize) \o Rep("b", 100)
\* a document with no extractable text, and one of whitespace only
DocEmpty == ""
DocBlank == Rep(" ", 5)

\* the text the extractor returns for an uploaded file
Docs == {DocEmpty, DocBlank, DocGap, DocFull(MaxWindows)}

\* req.file and req.body of an upload
UploadRequests ==
    {[file |-> NoFile, ollamaUrl |-> TRUE, embeddingModel |-> TRUE]}
    \cup {[file |-> File(DocGap), ollamaUrl |-> FALSE, embeddingModel |-> TRUE],
          [file |-> File(DocGap), ollamaUrl |-> TRUE, embeddingModel |-> FALSE]}
    \cup {[file |-> File(d), ollamaUrl |-> TRUE, embeddingModel |-> TRUE] : d \in Docs}

\* req.body of a chat (history is an array in all of them)
ChatRequests ==
    {[message |-> FALSE, provider |-> "ollama", ollamaUrl |-> TRUE,
      chatModel |-> TRUE, embeddingModel |-> TRUE],
     [message |-> TRUE, provider |-> "ollama", ollamaUrl |-> TRUE,
      chatModel |-> TRUE, embeddingModel |-> TRUE],
     [message |-> TRUE, provider |-> "ollama", ollamaUrl |-> TRUE,
      chatModel |-> FALSE, embeddingModel |-> TRUE],
     [message |-> TRUE, provider |-> "gemini", ollamaUrl |-> FALSE,
      chatModel |-> FALSE, embeddingModel |-> FALSE]}

\* the embeddings the provider answers with while the server runs
ProviderVecs == {<<3, 4>>, <<4, 3>>}

NoRes == [status |-> 0]

----------------------------------------------------------------------------
(* app.post('/api/upload'), server.ts:65-108 *)

NoUploadRequest == [file |-> NoFile, ollamaUrl |-> FALSE, embeddingModel |-> FALSE]

\* the handler's frame (req, chunks, i) lasts until the response is sent; alone,
\* before, pushed and calls are history: that no other upload was in flight while
\* this one was, the store this run cleared, the records this run pushed, and the
\* embedding round-trips of this run (issued, returned, failed) with their chunk index
IdleUpload ==
    [pc |-> "idle", req |-> NoUploadRequest, chunks |-> <<>>, i |-> 0, res |-> NoRes,
     alone |-> TRUE, before |-> <<>>, pushed |-> <<>>, calls |-> <<>>]

\* what the provider and the extractor throw with
EmbeddingError == "Ollama embedding error: Not Found"
ChatError == "Ollama chat error: Not Found"
ParseError == "Invalid PDF structure"

\* the failure message is dropped
CatchGeneric(message, fallback) == [status |-> 500, error |-> fallback]

\* the catch blocks: res.status(500).json({ error: error.message || fallback })
Catch(message, fallback) ==
    [status |-> 500, error |-> IF message = "" THEN fallback ELSE message]

\* the response res is sent and the handler returns
UploadRespond(f, res) ==
    [f EXCEPT !.pc = "done", !.res = res, !.req = NoUploadRequest, !.chunks = <<>>, !.i = 0]

InFlight(u) == up[u].pc \in {"parsing", "embedding"}

\* no chunk is skipped
SkipBlankNever(chunks, i) == i

RECURSIVE SkipBlank(_, _)
\* the loop head: for (...; i < chunks.length; i++) { if (chunk.trim().length === 0) continue; ...
\* the index of the next chunk that is embedded, or chunks.length
SkipBlank(chunks, i) ==
    IF i < Len(chunks) /\ IsBlank(chunks[i + 1]) THEN SkipBlank(chunks, i + 1) ELSE i

\* the id `chunk-${i}`
ChunkId(i) == <<"chunk-", i>>

\* the store is left as it is
ClearStoreSkipped(store) == store

\* vectorStore = []
ClearStore(store) == <<>>

\* res.json({ success: true, message: `Indexed ${vectorStore.length} chunks successfully.` })
UploadSuccess(store) == [status |-> 200, success |-> TRUE, indexed |-> Len(store)]

\* lines 67-74: the input checks; then the text extraction is awaited
UploadStart(u, r) ==
    /\ up[u].pc = "idle"
    /\ IF ~r.file.present
       THEN up' = [up EXCEPT ![u] =
                     UploadRespond(up[u], [status |-> 400, error |-> "No file uploaded"])]
       ELSE IF ~r.ollamaUrl \/ ~r.embeddingModel
       THEN up' = [up EXCEPT ![u] =
                     UploadRespond(up[u], [status |-> 400,
                         error |-> "Ollama URL and Embedding Model are required for indexing."])]
       ELSE up' = [v \in Uploads |->
                     IF v = u
                     THEN [up[v] EXCEPT !.pc = "parsing", !.req = r,
                                        !.alone = \A w \in Uploads \ {u} : ~InFlight(w)]
                     ELSE IF InFlight(v) THEN [up[v] EXCEPT !.alone = FALSE] ELSE up[v]]
    /\ UNCHANGED <<vectorStore, chat, chunker, retrieval, client>>

\* line 78 throws: the catch block answers 500
UploadParseFail(u) ==
    /\ up[u].pc = "parsing"
    /\ up' = [up EXCEPT ![u] =
                UploadRespond(up[u], Catch(ParseError, "Failed to process PDF"))]
    /\ UNCHANGED <<vectorStore, chat, chunker, retrieval, client>>

\* the loop goes on one chunk further than it should
UploadLoopSkipping(f, i, store) ==
    LET j == SkipBlank(f.chunks, i + 1)
    IN  IF j < Len(f.chunks)
        THEN [f EXCEPT !.pc = "embedding", !.i = j,
                       !.calls = Append(@, [op |-> "embed", i |-> j])]
        ELSE UploadRespond(f, UploadSuccess(store))

\* lines 88-103 from the loop test on: blank chunks are skipped up to the next
\* embedding call, or the loop ends and the success response is sent
UploadLoop(f, i, store) ==
    LET j == SkipBlank(f.chunks, i)
    IN  IF j < Len(f.chunks)
        THEN [f EXCEPT !.pc = "embedding", !.i = j,
                       !.calls = Append(@, [op |-> "embed", i |-> j])]
        ELSE UploadRespond(f, UploadSuccess(store))

\* lines 78-92: the text arrives, is chunked, the store is cleared and the loop
\* is entered
UploadParsed(u) ==
    /\ up[u].pc = "parsing"
    /\ LET chunks == chunkText(up[u].req.file.text, DefaultChunkSize, DefaultOverlap)
           store  == ClearStore(vectorStore)
       IN  /\ vectorStore' = store
           /\ up' = [up EXCEPT ![u] =
                       UploadLoop([up[u] EXCEPT !.chunks = chunks, !.before = vectorStore],
                                  0, store)]
    /\ UNCHANGED <<chat, chunker, retrieval, client>>

\* the record pushed for chunk i of the frame f
NewDoc(f, embedding, u) ==
    [id |-> ChunkId(f.i), text |-> f.chunks[f.i + 1], embedding |-> embedding, run |-> u]

\* lines 92-103: the embedding arrives, the record is pushed and the loop goes on
UploadEmbedOk(u, embedding) ==
    /\ up[u].pc = "embedding"
    /\ LET doc   == NewDoc(up[u], embedding, u)
           store == Append(vectorStore, doc)
       IN  /\ vectorStore' = store
           /\ up' = [up EXCEPT ![u] =
                       UploadLoop([up[u] EXCEPT !.pushed = Append(@, doc),
                                                !.calls = Append(@, [op |-> "ok", i |-> up[u].i])],
                                  up[u].i + 1, store)]
    /\ UNCHANGED <<chat, chunker, retrieval, client>>

\* getOllamaEmbedding throws (lines 56-58, or fetch or response.json() rejects):
\* the catch block answers 500
UploadEmbedFail(u) ==
    /\ up[u].pc = "embedding"
    /\ up' = [up EXCEPT ![u] =
                UploadRespond([up[u] EXCEPT !.calls = Append(@, [op |-> "fail", i |-> up[u].i])],
                              Catch(EmbeddingError, "Failed to process PDF"))]
    /\ UNCHANGED <<vectorStore, chat, chunker, retrieval, client>>

----------------------------------------------------------------------------
(* app.post('/api/chat'), server.ts:111-198 *)

NoChatRequest ==
    [message |-> FALSE, provider |-> "gemini", ollamaUrl |-> FALSE,
     chatModel |-> FALSE, embeddingModel |-> FALSE]

\* the handler's frame (req, context) lasts until the response is sent (calls and
\* hadDocs are history: the provider round-trips of this request, issued, returned
\* and failed, and whether the store held records when the request arrived)
IdleChat ==
    [pc |-> "idle",
     req |-> NoChatRequest,
     context |-> "", res |-> NoRes, searched |-> FALSE, during |-> {},
     calls |-> <<>>, hadDocs |-> FALSE]

\* the response res is sent and the handler returns
Respond(c, res) ==
    [c EXCEPT !.pc = "done", !.res = res, !.req = NoChatRequest, !.context = ""]

\* lines 140-192 up to the chat provider's call: the ollama branch answers 400
\* without URL or chat model; otherwise the chat round-trip is awaited
Dispatch(c) ==
    IF c.req.provider = "ollama" /\ (~c.req.ollamaUrl \/ ~c.req.chatModel)
    THEN Respond(c, [status |-> 400, error |-> "Ollama URL and Chat Model are required."])
    ELSE [c EXCEPT !.pc = "chatting", !.calls = Append(@, "chat")]

\* the search runs for every request that names the embedding provider
HasDocumentsAlways(store, r) == r.ollamaUrl /\ r.embeddingModel

\* line 122: if (vectorStore.length > 0 && ollamaUrl && embeddingModel)
HasDocuments(store, r) == Len(store) > 0 /\ r.ollamaUrl /\ r.embeddingModel

\* lines 113-123: the message check and the test that guards the vector search
ChatStart(c, r) ==
    /\ chat[c].pc = "idle"
    /\ LET q == [chat[c] EXCEPT !.req = r, !.hadDocs = Len(vectorStore) > 0] IN
       IF ~r.message
       THEN chat' = [chat EXCEPT ![c] = Respond(q, [status |-> 400, error |-> "Message is required"])]
       ELSE IF HasDocuments(vectorStore, r)
       THEN chat' = [chat EXCEPT ![c] = [q EXCEPT !.pc = "embedding",
                                                   !.calls = Append(@, "embed")]]
       ELSE chat' = [chat EXCEPT ![c] = Dispatch(q)]
    /\ UNCHANGED <<vectorStore, up, chunker, retrieval, client>>

\* lines 123-136: the query embedding arrives; the store as it is now is scored,
\* sorted and cut to the top 3, whose texts make the context (searched and during
\* are history: that the search ran, and the uploads in flight when it ran)
ChatEmbedOk(c, queryEmbedding) ==
    /\ chat[c].pc = "embedding"
    /\ chat' = [chat EXCEPT ![c] =
                  Dispatch([chat[c] EXCEPT !.context = Retrieve(vectorStore, queryEmbedding).context,
                                           !.searched = TRUE,
                                           !.calls = Append(@, "embedOk"),
                                           !.during = {u \in Uploads : InFlight(u)}])]
    /\ UNCHANGED <<vectorStore, up, chunker, retrieval, client>>

\* getOllamaEmbedding throws: the catch block answers 500
ChatEmbedFail(c) ==
    /\ chat[c].pc = "embedding"
    /\ chat' = [chat EXCEPT ![c] =
                  Respond([chat[c] EXCEPT !.calls = Append(@, "embedFail")],
                          Catch(EmbeddingError, "Failed to generate response"))]
    /\ UNCHANGED <<vectorStore, up, chunker, retrieval, client>>

\* lines 165-166, 191: the chat provider answers; the reply is sent
ChatReplyOk(c) ==
    /\ chat[c].pc = "chatting"
    /\ chat' = [chat EXCEPT ![c] =
                  Respond([chat[c] EXCEPT !.calls = Append(@, "chatOk")],
                          [status |-> 200, reply |-> TRUE])]
    /\ UNCHANGED <<vectorStore, up, chunker, retrieval, client>>

\* lines 161-163, or the provider's call rejects: the catch block answers 500
ChatReplyFail(c) ==
    /\ chat[c].pc = "chatting"
    /\ chat' = [chat EXCEPT ![c] =
                  Respond([chat[c] EXCEPT !.calls = Append(@, "chatFail")],
                          Catch(ChatError, "Failed to generate response"))]
    /\ UNCHANGED <<vectorStore, up, chunker, retrieval, client>>

----------------------------------------------------------------------------
(* handleFileUpload of the streaming client, unnamed/part_000:35-106 *)

\* most status records in one response body
MaxRecords == 2

\* the messages handleFileUpload sets (their accented letters written in ASCII)
Processing ==
    [role |-> "model", text |-> "Processando e indexando o PDF...", isGreeting |-> TRUE]
Indexed ==
    [role |-> "model",
     text |-> "PDF indexado com sucesso! O que voce gostaria de saber sobre ele?",
     isGreeting |-> TRUE]
ErrorMessage(message) ==
    [role |-> "model", text |-> "Erro ao processar PDF: " \o message, isGreeting |-> TRUE]

\* what line 63 throws with, and what fetch and reader.read() reject with
NotOk == "Falha ao conectar com o servidor para indexacao"
FetchFailed == "Failed to fetch"
NetworkError == "network error"

\* the lines a response body is made of: the three status records, a record cut
\* short, and a line of one space
ProgressLine == "{\"status\":\"progress\",\"progress\":50}"
ErrorLine == "{\"status\":\"error\",\"error\":\"Ollama embedding error\"}"
CompleteLine == "{\"status\":\"complete\"}"
CutLine == "{\"status\":"
Lines == {ProgressLine, ErrorLine, CompleteLine, CutLine, " "}

RECURSIVE Body(_, _)
\* the text of the lines ls, each followed by a line feed, the last one only if
\* terminated
Body(ls, terminated) ==
    IF ls = <<>> THEN ""
    ELSE IF Len(ls) = 1 THEN ls[1] \o (IF terminated THEN "\n" ELSE "")
    ELSE ls[1] \o "\n" \o Body(Tail(ls), terminated)

\* the response bodies of at most MaxRecords lines
Bodies ==
    {Body(ls, t) : ls \in UNION {[1..n -> Lines] : n \in 0..MaxRecords}, t \in BOOLEAN}

\* the numbers of characters one reader.read() can deliver
ReadSizes == 1..(MaxRecords * (Len(ErrorLine) + 1))

\* JSON.parse(line) and the fields read of its result; a text that ends inside a
\* value makes it throw a SyntaxError
JsonParse(line) ==
    IF line = ProgressLine
    THEN [threw |-> FALSE, status |-> "progress", progress |-> 50, error |-> ""]
    ELSE IF line = ErrorLine
    THEN [threw |-> FALSE, status |-> "error", progress |-> 0,
          error |-> "Ollama embedding error"]
    ELSE IF line = CompleteLine
    THEN [threw |-> FALSE, status |-> "complete", progress |-> 0, error |-> ""]
    ELSE [threw |-> TRUE, status |-> "", progress |-> 0,
          error |-> "Unexpected end of JSON input"]

RECURSIVE Split(_)
\* s.split('\n')
Split(s) ==
    LET feeds == {k \in 1..Len(s) : SubSeq(s, k, k) = "\n"}
    IN  IF feeds = {} THEN <<s>>
        ELSE LET k == CHOOSE f \in feeds : \A g \in feeds : f <= g
             IN  <<SubSeq(s, 1, k - 1)>> \o Split(SubSeq(s, k + 1, Len(s)))

\* the call's frame (file, stream: what the response body has still to deliver,
\* buffer) and the component's state (messages, isIndexing, indexProgress); console
\* holds what console.error was called with; errors is history: the error texts
\* of the status records read
IdleClient ==
    [pc |-> "idle", stream |-> "", buffer |-> "",
     messages |-> <<>>, isIndexing |-> FALSE, indexProgress |-> 0,
     console |-> <<>>, errors |-> <<>>]

\* lines 101-104: finally, and the call returns
Finally(c) ==
    [c EXCEPT !.pc = "done", !.isIndexing = FALSE, !.indexProgress = 0,
              !.stream = "", !.buffer = ""]

\* lines 98-100: the outer catch
OuterCatch(c, message) ==
    Finally([c EXCEPT !.console = Append(@, message),
                      !.messages = <<ErrorMessage(message)>>])

\* lines 91-95: the inner catch
InnerCatch(c, message) ==
    IF message # "Unexpected end of JSON input"
    THEN [c EXCEPT !.console = Append(@, "Error parsing stream line: " \o message)]
    ELSE c

\* lines 80-95: one iteration of the for loop; what the try block throws, the
\* inner catch catches
HandleLine(c, line) ==
    IF IsBlank(line) THEN c
    ELSE LET data == JsonParse(line)
         IN  IF data.threw THEN InnerCatch(c, data.error)
             ELSE IF data.status = "progress"
             THEN [c EXCEPT !.indexProgress = data.progress]
             ELSE IF data.status = "error"
             THEN InnerCatch([c EXCEPT !.errors = Append(@, data.error)], data.error)
             ELSE IF data.status = "complete"
             THEN [c EXCEPT !.messages = <<Indexed>>]
             ELSE c

RECURSIVE HandleLines(_, _)
\* lines 79-96: the for loop
HandleLines(c, lines) ==
    IF lines = <<>> THEN c
    ELSE HandleLines(HandleLine(c, lines[1]), Tail(lines))

\* lines 35-50: without a file, or with a file that is not a PDF, the call
\* returns; otherwise it sets the processing message and awaits fetch
ClientStart(file) ==
    /\ client.pc = "idle"
    /\ client' = IF file # "pdf" THEN [client EXCEPT !.pc = "done"]
                 ELSE [client EXCEPT !.pc = "fetching", !.isIndexing = TRUE,
                                     !.indexProgress = 0, !.messages = <<Processing>>]
    /\ UNCHANGED <<vectorStore, up, chat, chunker, retrieval>>

\* lines 57-60: fetch rejects
ClientFetchFail ==
    /\ client.pc = "fetching"
    /\ client' = OuterCatch(client, FetchFailed)
    /\ UNCHANGED <<vectorStore, up, chat, chunker, retrieval>>

\* lines 62-70: the response arrives; line 63 throws unless it is ok; a response
\* without body has no reader
ClientResponse(ok, hasBody, body) ==
    /\ client.pc = "fetching"
    /\ client' = IF ~ok THEN OuterCatch(client, NotOk)
                 ELSE IF ~hasBody THEN Finally(client)
                 ELSE [client EXCEPT !.pc = "reading", !.stream = body, !.buffer = ""]
    /\ UNCHANGED <<vectorStore, up, chat, chunker, retrieval>>

\* lines 72-96: reader.read() delivers the next n characters of the body; the
\* buffer is split and its complete lines are handled
ClientRead(n) ==
    /\ client.pc = "reading"
    /\ n \in 1..Len(client.stream)
    /\ LET lines == Split(client.buffer \o SubSeq(client.stream, 1, n))
       IN  client' = HandleLines(
                        [client EXCEPT !.stream = SubSeq(@, n + 1, Len(@)),
                                       !.buffer = lines[Len(lines)]],
                        SubSeq(lines, 1, Len(lines) - 1))
    /\ UNCHANGED <<vectorStore, up, chat, chunker, retrieval>>

\* lines 72-73: the body is at its end; the loop breaks
ClientReadDone ==
    /\ client.pc = "reading"
    /\ client.stream = ""
    /\ client' = Finally(client)
    /\ UNCHANGED <<vectorStore, up, chat, chunker, retrieval>>

\* line 72: reader.read() rejects
ClientReadFail ==
    /\ client.pc = "reading"
    /\ client' = OuterCatch(client, NetworkError)
    /\ UNCHANGED <<vectorStore, up, chat, chunker, retrieval>>

InitClient ==
    /\ vectorStore = <<>>
    /\ up = [u \in Uploads |-> IdleUpload]
    /\ chat = [c \in Chats |-> IdleChat]
    /\ chunker = NoFrame
    /\ retrieval = NoRetrieval
    /\ client = IdleClient

NextClient ==
    \/ \E file \in {"none", "image", "pdf"} : ClientStart(file)
    \/ ClientFetchFail
    \/ \E ok \in BOOLEAN, hasBody \in BOOLEAN, body \in Bodies :
          ClientResponse(ok, hasBody, body)
    \/ \E n \in ReadSizes : ClientRead(n)
    \/ ClientReadDone
    \/ ClientReadFail

SpecClient == InitClient /\ [][NextClient]_vars

----------------------------------------------------------------------------
(* The server: upload and chat requests interleave at their awaits *)

Init ==
    /\ client = IdleClient
    /\ vectorStore = <<>>
    /\ up = [u \in Uploads |-> IdleUpload]
    /\ chat = [c \in Chats |-> IdleChat]
    /\ chunker = NoFrame
    /\ retrieval = NoRetrieval

Next ==
    \/ \E u \in Uploads, r \in UploadRequests : UploadStart(u, r)
    \/ \E u \in Uploads : UploadParseFail(u)
    \/ \E u \in Uploads : UploadParsed(u)
    \/ \E u \in Uploads, e \in ProviderVecs : UploadEmbedOk(u, e)
    \/ \E u \in Uploads : UploadEmbedFail(u)
    \/ \E c \in Chats, r \in ChatRequests : ChatStart(c, r)
    \/ \E c \in Chats, e \in ProviderVecs : ChatEmbedOk(c, e)
    \/ \E c \in Chats : ChatEmbedFail(c)
    \/ \E c \in Chats : ChatReplyOk(c)
    \/ \E c \in Chats : ChatReplyFail(c)

Spec == Init /\ [][Next]_vars

(* One call of chunkText, stepped *)

InitChunk ==
    /\ client = IdleClient
    /\ vectorStore = <<>>
    /\ up = [u \in Uploads |-> IdleUpload]
    /\ chat = [c \in Chats |-> IdleChat]
    /\ \E in \in ChunkInputs : chunker = ChunkFrame(in[1], in[2], in[3])
    /\ retrieval = NoRetrieval

NextChunk == ChunkStep \/ ChunkReturn

SpecChunk == InitChunk /\ [][NextChunk]_vars

(* The retrieval step on any store of up to MaxStore records *)

\* the stores of n records an upload of an n-window document can leave
StoresOf(n) ==
    LET chunks == chunkText(DocFull(n), DefaultChunkSize, DefaultOverlap)
    IN  {[k \in 1..n |-> [id |-> ChunkId(k - 1), text |-> chunks[k],
                          embedding |-> e[k], run |-> "u1"]] : e \in [1..n -> Vecs]}

InitRetrieve ==
    /\ client = IdleClient
    /\ vectorStore = <<>>
    /\ up = [u \in Uploads |-> IdleUpload]
    /\ chat = [c \in Chats |-> IdleChat]
    /\ chunker = NoFrame
    /\ \E n \in 0..MaxStore : \E store \in StoresOf(n) : \E q \in Vecs :
          retrieval = [NoRetrieval EXCEPT !.pc = "called", !.store = store,
                                          !.queryEmbedding = q]

NextRetrieve == RetrieveStep

SpecRetrieve == InitRetrieve /\ [][NextRetrieve]_vars

----------------------------------------------------------------------------
(* Properties of the server *)

\* a store record without its history field
Strip(doc) == [id |-> doc.id, text |-> doc.text, embedding |-> doc.embedding]

\* id and text of a record
IdText(doc) == [id |-> doc.id, text |-> doc.text]

MapSeq(s, Op(_)) == [k \in 1..Len(s) |-> Op(s[k])]

RECURSIVE NonBlankFrom(_, _)
\* id and text of the non-blank windows k, k+1, ... of chunks, in order
NonBlankFrom(chunks, k) ==
    IF k > Len(chunks) THEN <<>>
    ELSE (IF \E p \in 1..Len(chunks[k]) : SubSeq(chunks[k], p, p) \notin Whitespace
          THEN <<[id |-> ChunkId(k - 1), text |-> chunks[k]]>> ELSE <<>>)
         \o NonBlankFrom(chunks, k + 1)

\* what a complete index of the text holds: one entry per non-blank window
Expected(text) == NonBlankFrom(chunkText(text, DefaultChunkSize, DefaultOverlap), 1)

IsPrefix(s, t) == Len(s) <= Len(t) /\ s = SubSeq(t, 1, Len(s))
IsSuffix(s, t) == Len(s) <= Len(t) /\ s = SubSeq(t, Len(t) - Len(s) + 1, Len(t))

\* the step in which upload u sends its success response
Completes(u) == InFlight(u) /\ up'[u].pc = "done" /\ up'[u].res.status = 200

\* the step in which chat c scores the store
Scores(c) == chat[c].pc = "embedding" /\ chat'[c].searched

\* C1 (as claimed): in every reachable state all records of vectorStore were
\* pushed by one upload run.
C1_SingleRun ==
    \A a, b \in 1..Len(vectorStore) : vectorStore[a].run = vectorStore[b].run

\* C2: when an upload that overlapped no other upload sends its success response,
\* the store holds exactly one record per non-blank chunk of its document, in
\* chunk order, each pushed by this run with the embedding returned for it, and
\* nothing of what the store held before.
C2_AloneUploadReplaces ==
    [][\A u \in Uploads :
         (Completes(u) /\ up'[u].alone) =>
            /\ vectorStore' = up'[u].pushed
            /\ MapSeq(vectorStore', IdText) = Expected(up[u].req.file.text)
            /\ \A k \in 1..Len(vectorStore') : vectorStore'[k].run = u]_vars

\* an upload that ran alone has replaced a non-empty store by its own records
C2_Witness ==
    \E u \in Uploads :
        /\ up[u].pc = "done" /\ up[u].res.status = 200 /\ up[u].alone
        /\ up[u].before # <<>> /\ Len(up[u].pushed) >= 2
        /\ vectorStore = up[u].pushed

\* the store as upload u found it, and the store fully re-indexed by u
OldState(u, store) == up[u].pc = "parsing" \/ store = up[u].before
NewState(u, store) ==
    /\ MapSeq(store, IdText) = Expected(up[u].req.file.text)
    /\ \A k \in 1..Len(store) : store[k].run = u

\* C3 (as claimed): a chat that scores the store while an upload is in flight
\* scores either the store that upload found or the store fully re-indexed by it.
C3_OldOrNew ==
    [][\A c \in Chats : Scores(c) =>
         \A u \in Uploads : (InFlight(u) /\ up[u].alone) =>
             OldState(u, vectorStore) \/ NewState(u, vectorStore)]_vars

\* C3 (amended): a chat that scores the store while an upload is in flight and
\* past its clear scores, of that upload, the records it pushed last, in chunk
\* order; when the upload overlapped no other upload the store scored is exactly
\* what the upload has pushed so far: an in-order prefix of the new document's
\* non-blank chunks that is not yet complete, and no record of the old document.
C3_PartialPrefix ==
    [][\A c \in Chats : Scores(c) =>
         \A u \in Uploads : up[u].pc = "embedding" =>
             /\ IsSuffix(SelectSeq(vectorStore, LAMBDA d : d.run = u), up[u].pushed)
             /\ up[u].alone =>
                  /\ vectorStore = up[u].pushed
                  /\ IsPrefix(MapSeq(vectorStore, IdText), Expected(up[u].req.file.text))
                  /\ Len(vectorStore) < Len(Expected(up[u].req.file.text))]_vars

\* a chat has scored a non-empty store while an upload that ran alone, and had
\* cleared a non-empty store, was still embedding
C3_Witness ==
    \E c \in Chats, u \in Uploads :
        /\ chat[c].pc = "chatting" /\ chat[c].searched /\ chat[c].context # ""
        /\ u \in chat[c].during
        /\ up[u].pc = "embedding" /\ up[u].alone
        /\ up[u].before # <<>> /\ up[u].pushed # <<>>

----------------------------------------------------------------------------
(* Properties of chunkText *)

Returned == chunker.pc = "returned"

\* the characters of text at the 0-based positions from, ..., to - 1
Window(text, from, to) == IF to <= from THEN "" ELSE SubSeq(text, from + 1, to)

\* C4: for chunkSize > overlap >= 0 the windows chunkText returns start at
\* strictly increasing offsets, each is the text at its offset, every character
\* position lies in one of them, and the last one ends at text.length.
C4_WindowsCover ==
    (Returned /\ chunker.chunkSize > chunker.overlap) =>
        LET n == Len(chunker.chunks)
            End(j) == chunker.starts[j] + Len(chunker.chunks[j])
        IN  /\ Len(chunker.starts) = n
            /\ \A j \in 1..n : chunker.chunks[j] = Window(chunker.text, chunker.starts[j], End(j))
            /\ \A j \in 1..(n - 1) : chunker.starts[j] < chunker.starts[j + 1]
            /\ \A p \in 0..(Len(chunker.text) - 1) :
                   \E j \in 1..n : chunker.starts[j] <= p /\ p < End(j)
            /\ n > 0 => End(n) = Len(chunker.text)

\* a call with overlapping windows has returned several of them
C4_Witness ==
    /\ Returned /\ chunker.overlap >= 1 /\ chunker.chunkSize > chunker.overlap
    /\ Len(chunker.chunks) >= 3

\* C5 (as claimed): every loop iteration of chunkText advances the start offset
\* by at least 1, whatever chunkSize and overlap are.
C5_ForwardProgress ==
    [][(chunker.pc = "loop" /\ chunker'.pc = "loop") => chunker'.i >= chunker.i + 1]_vars

\* C6: for chunkSize > overlap >= 0 window j (from 0) starts at
\* j * (chunkSize - overlap), is min(chunkSize, text.length - start) long, and
\* there is a window for exactly the starts below text.length; the 2000-character
\* text under the defaults gives starts 0, 800, 1600 and lengths 1000, 1000, 400.
C6_WindowOffsets ==
    (Returned /\ chunker.chunkSize > chunker.overlap) =>
        LET n    == Len(chunker.chunks)
            len  == Len(chunker.text)
            step == chunker.chunkSize - chunker.overlap
        IN  /\ Len(chunker.starts) = n
            /\ n = Cardinality({j \in 0..len : j * step < len})
            /\ \A j \in 1..n :
                  /\ chunker.starts[j] = (j - 1) * step
                  /\ Len(chunker.chunks[j]) = Min(chunker.chunkSize, len - chunker.starts[j])
                  /\ chunker.chunks[j] =
                       Window(chunker.text, chunker.starts[j],
                              chunker.starts[j] + Len(chunker.chunks[j]))
            /\ (chunker.text = ScenarioText /\ chunker.chunkSize = DefaultChunkSize
                    /\ chunker.overlap = DefaultOverlap) =>
                  /\ chunker.starts = <<0, 800, 1600>>
                  /\ MapSeq(chunker.chunks, Len) = <<1000, 1000, 400>>

\* the call on the 2000-character text has returned
C6_Witness ==
    /\ Returned /\ chunker.text = ScenarioText
    /\ chunker.chunkSize = DefaultChunkSize /\ chunker.overlap = DefaultOverlap
    /\ Len(chunker.chunks) = 3

----------------------------------------------------------------------------
(* Properties of the retrieval step *)

Retrieved == retrieval.pc = "returned"

\* the cosine score of store record k for the query of the step
ScoreOf(k) == cosineSimilarity(retrieval.queryEmbedding, retrieval.store[k].embedding)

\* the store position of a scored record (its id is chunk-(position - 1))
PosOf(doc) == doc.id[2] + 1

\* the rank of store record k
PosRanked(k) == CHOOSE j \in 1..Len(retrieval.scoredChunks) : PosOf(retrieval.scoredChunks[j]) = k

\* s lists records of the store, none of them twice
SelectsFromStore(s) ==
    /\ \A k \in 1..Len(s) :
          PosOf(s[k]) \in 1..Len(retrieval.store) /\ Strip(s[k]) = Strip(retrieval.store[PosOf(s[k])])
    /\ \A a, b \in 1..Len(s) : a # b => PosOf(s[a]) # PosOf(s[b])

IsZero(v) == \A k \in 1..Len(v) : v[k] = 0

\* a and b point the same way: b is a positive multiple of a
SameDirection(a, b) ==
    LET dot == SumTo(a, b, Len(a), 0)
    IN  dot > 0 /\ dot * dot = SumTo(a, a, Len(a), 0) * SumTo(b, b, Len(b), 0)

One == [num |-> 1, den |-> 1]
Zero == [num |-> 0, den |-> 1]

\* C7: the step selects min(3, |store|) records of the store, in order of
\* non-increasing cosine score, and no record left out scores strictly more
\* than a selected one; from an empty store it selects nothing.
C7_TopK ==
    Retrieved =>
        LET top      == retrieval.topChunks
            selected == {PosOf(top[k]) : k \in 1..Len(top)}
        IN  /\ Len(top) = Min(3, Len(retrieval.store))
            /\ SelectsFromStore(top)
            /\ \A k \in 1..(Len(top) - 1) :
                   ~Less(ScoreOf(PosOf(top[k])), ScoreOf(PosOf(top[k + 1])))
            /\ \A u \in (1..Len(retrieval.store)) \ selected :
                   \A k \in selected : ~Less(ScoreOf(k), ScoreOf(u))
            /\ retrieval.store = <<>> => top = <<>> /\ retrieval.context = ""

\* the step has cut a store of more than 3 records with differing scores
C7_Witness ==
    /\ Retrieved /\ Len(retrieval.store) > 3 /\ Len(retrieval.topChunks) = 3
    /\ \E a, b \in 1..Len(retrieval.store) : Less(ScoreOf(a), ScoreOf(b))

\* C8: the ranking lists every record of the store once, by non-increasing
\* score, and records of equal score in the order they were inserted.
C8_StableRanking ==
    Retrieved =>
        LET ranked == retrieval.scoredChunks
        IN  /\ Len(ranked) = Len(retrieval.store)
            /\ SelectsFromStore(ranked)
            /\ \A a, b \in 1..Len(ranked) :
                   a < b => \/ Less(ranked[b].score, ranked[a].score)
                            \/ /\ ranked[a].score = ranked[b].score
                               /\ PosOf(ranked[a]) < PosOf(ranked[b])

\* the step has ranked a store in which a later record outscores two earlier
\* records of equal score
C8_Witness ==
    /\ Retrieved
    /\ \E a, b, c \in 1..Len(retrieval.store) :
          /\ a < b /\ b < c
          /\ ScoreOf(a) = ScoreOf(b)
          /\ retrieval.store[a].embedding # retrieval.store[b].embedding
          /\ Less(ScoreOf(a), ScoreOf(c))

\* the embeddings of the store are non-zero and pairwise distinct
DistinctEmbeddings ==
    /\ \A k \in 1..Len(retrieval.store) : ~IsZero(retrieval.store[k].embedding)
    /\ \A a, b \in 1..Len(retrieval.store) :
          a # b => retrieval.store[a].embedding # retrieval.store[b].embedding

\* C9 (as claimed): when the stored embeddings are non-zero and pairwise
\* distinct and the query equals the embedding of record k, record k is ranked
\* first, with score 1.
C9_ExactMatchFirst ==
    (Retrieved /\ DistinctEmbeddings) =>
        \A k \in 1..Len(retrieval.store) :
            retrieval.store[k].embedding = retrieval.queryEmbedding =>
                /\ PosOf(retrieval.scoredChunks[1]) = k
                /\ retrieval.scoredChunks[1].score = One

\* C9 (amended): under the same conditions record k has score 1 and no record
\* scores more; it is ranked first when no record inserted before it has an
\* embedding that is a positive multiple of the query, and otherwise the first
\* inserted of those records is ranked first, also with score 1.
C9_ExactMatchFirstUnlessParallel ==
    (Retrieved /\ DistinctEmbeddings) =>
        \A k \in 1..Len(retrieval.store) :
            retrieval.store[k].embedding = retrieval.queryEmbedding =>
                LET parallel == {j \in 1..Len(retrieval.store) :
                                    SameDirection(retrieval.store[j].embedding,
                                                  retrieval.queryEmbedding)}
                    first    == CHOOSE j \in parallel : \A m \in parallel : j <= m
                IN  /\ retrieval.scoredChunks[PosRanked(k)].score = One
                    /\ \A j \in 1..Len(retrieval.scoredChunks) :
                           ~Less(One, retrieval.scoredChunks[j].score)
                    /\ PosOf(retrieval.scoredChunks[1]) = first
                    /\ retrieval.scoredChunks[1].score = One

\* the query equals the embedding of the third of four records with distinct
\* embeddings, none before it parallel to it, one after it parallel to it
C9_Witness ==
    /\ Retrieved /\ DistinctEmbeddings /\ Len(retrieval.store) = 4
    /\ retrieval.store[3].embedding = retrieval.queryEmbedding
    /\ SameDirection(retrieval.store[4].embedding, retrieval.queryEmbedding)
    /\ PosOf(retrieval.scoredChunks[1]) = 3

\* C10: a score is 0, and not NaN, whenever the query embedding or the record's
\* embedding has zero magnitude.
C10_ZeroMagnitude ==
    Retrieved =>
        \A k \in 1..Len(retrieval.scoredChunks) :
            (IsZero(retrieval.queryEmbedding) \/ IsZero(retrieval.scoredChunks[k].embedding))
                => retrieval.scoredChunks[k].score = Zero

\* the step has scored a zero embedding against a non-zero query, or a non-zero
\* embedding against the zero query
C10_Witness ==
    /\ Retrieved
    /\ \E k \in 1..Len(retrieval.scoredChunks) :
          IsZero(retrieval.queryEmbedding) # IsZero(retrieval.scoredChunks[k].embedding)

----------------------------------------------------------------------------
(* Properties of the provider round-trips *)

\* the round-trips of a chat that searched the store, up to the chat provider's call
SearchedThenChat == <<"embed", "embedOk", "chat">>

\* chat c has called the chat provider
ReachedChat(c) == \E k \in 1..Len(chat[c].calls) : chat[c].calls[k] = "chat"

\* C11 (as claimed): a chat request that has called the chat provider has made
\* exactly one embedding round-trip before, and that round-trip had returned.
C11_OneEmbeddingBeforeChat ==
    \A c \in Chats : ReachedChat(c) =>
        /\ Len(chat[c].calls) >= 3
        /\ SubSeq(chat[c].calls, 1, 3) = SearchedThenChat

\* C11 (amended): a chat request that has called the chat provider has made at
\* most one embedding round-trip before, and that round-trip had returned: it made
\* exactly one when the store held records as the request arrived and the request
\* names the Ollama URL and the embedding model, and none otherwise.
C11_EmbeddingIffDocuments ==
    \A c \in Chats : ReachedChat(c) =>
        /\ \/ chat[c].calls[1] = "chat"
           \/ /\ Len(chat[c].calls) >= 3
              /\ SubSeq(chat[c].calls, 1, 3) = SearchedThenChat
        /\ chat[c].pc = "chatting" =>
              (chat[c].calls = SearchedThenChat
                  <=> (chat[c].hadDocs /\ chat[c].req.ollamaUrl /\ chat[c].req.embeddingModel))

\* a chat that found records in the store is at the chat provider, its one
\* embedding round-trip behind it
C11_Witness ==
    \E c \in Chats :
        /\ chat[c].pc = "chatting" /\ chat[c].hadDocs
        /\ chat[c].calls = SearchedThenChat

\* the round-trip that call k of upload u, or of chat c, records has failed
UploadCallFailed(u, k) == up[u].calls[k].op = "fail"
ChatCallFailed(c, k) == chat[c].calls[k] \in {"embedFail", "chatFail"}

\* C12: a provider round-trip that failed is the last provider event of its
\* request: nothing is retried and no other provider call follows; the request
\* has ended with status 500 and the failure's message as its error, never with
\* a success.
C12_NoRetry ==
    /\ \A u \in Uploads : \A k \in 1..Len(up[u].calls) : UploadCallFailed(u, k) =>
          /\ k = Len(up[u].calls)
          /\ up[u].pc = "done"
          /\ up[u].res.status = 500
          /\ up[u].res.error = EmbeddingError
    /\ \A c \in Chats : \A k \in 1..Len(chat[c].calls) : ChatCallFailed(c, k) =>
          /\ k = Len(chat[c].calls)
          /\ chat[c].pc = "done"
          /\ chat[c].res.status = 500
          /\ chat[c].res.error =
                (IF chat[c].calls[k] = "embedFail" THEN EmbeddingError ELSE ChatError)

\* an upload has failed at its second embedding, and a chat at the chat provider
\* after its embedding round-trip
C12_Witness ==
    /\ \E u \in Uploads :
          /\ Len(up[u].calls) = 4 /\ UploadCallFailed(u, 4)
          /\ Len(up[u].pushed) = 1
    /\ \E c \in Chats :
          /\ Len(chat[c].calls) = 4 /\ chat[c].calls[4] = "chatFail"

----------------------------------------------------------------------------
(* Properties of the upload's outcome *)

\* C13 (as claimed): an upload answers once, with a success or an error, and
\* nothing follows the answer; the count of a success response is the number of
\* records this run pushed.
C13_CountIsOwn ==
    [][\A u \in Uploads :
         /\ up[u].pc = "done" => up'[u] = up[u]
         /\ (InFlight(u) /\ up'[u].pc = "done") => up'[u].res.status \in {200, 500}
         /\ Completes(u) => up'[u].res.indexed = Len(up'[u].pushed)]_vars

\* the step in which upload u, its text extracted, leaves line 79
Extracted(u) == up[u].pc = "parsing" /\ up'[u].pc # "parsing" /\ up'[u].res.status # 500

\* C14: an upload whose extracted text has no non-blank chunk answers, in the
\* step that follows the extraction, with a success that reports 0 records; it
\* has issued no embedding round-trip and the store is empty as it answers.
C14_EmptyDocument ==
    [][\A u \in Uploads :
         (Extracted(u) /\ Expected(up[u].req.file.text) = <<>>) =>
            /\ up'[u].pc = "done"
            /\ up'[u].res.status = 200
            /\ up'[u].res.indexed = 0
            /\ up'[u].calls = <<>>
            /\ up'[u].pushed = <<>>
            /\ vectorStore' = <<>>]_vars

\* an upload without a non-blank chunk has answered 0 over a store that held
\* records before
C14_Witness ==
    \E u \in Uploads :
        /\ up[u].pc = "done" /\ up[u].res.status = 200 /\ up[u].res.indexed = 0
        /\ up[u].calls = <<>> /\ up[u].before # <<>>
        /\ vectorStore = <<>>

\* the step in which upload u, or chat c, sends a 400
UploadRejects(u) == up[u].pc # "done" /\ up'[u].pc = "done" /\ up'[u].res.status = 400
ChatRejects(c) == chat[c].pc # "done" /\ chat'[c].pc = "done" /\ chat'[c].res.status = 400

\* C15 (as claimed): a request answered 400 for its input has made no embedding
\* and no chat round-trip when the 400 is sent, and has not changed the store.
C15_InputErrorImmediate ==
    [][/\ \A u \in Uploads : UploadRejects(u) =>
             /\ up'[u].calls = <<>>
             /\ up'[u].pushed = <<>>
             /\ vectorStore' = vectorStore
       /\ \A c \in Chats : ChatRejects(c) =>
             /\ chat'[c].calls = <<>>
             /\ vectorStore' = vectorStore]_vars

\* the step in which an embedding round-trip of upload u fails
EmbeddingFails(u) ==
    /\ up[u].pc = "embedding" /\ up'[u].pc = "done"
    /\ up'[u].res.status = 500

\* C16 (as claimed): after an embedding round-trip of an upload has failed, the
\* store is the store this upload found or the store fully re-indexed by it (no
\* other upload having overlapped it).
C16_FailureKeepsOldOrNew ==
    [][\A u \in Uploads : (EmbeddingFails(u) /\ up[u].alone) =>
          \/ vectorStore' = up[u].before
          \/ NewState(u, vectorStore')]_vars

----------------------------------------------------------------------------
(* Properties of the records *)

\* the chunk index in the id of a record
IndexOf(doc) == doc.id[2]

\* C17 (as claimed): in every reachable state the ids in the store are strictly
\* increasing in store order, hence pairwise distinct.
C17_IdsIncrease ==
    \A a, b \in 1..Len(vectorStore) :
        a < b => IndexOf(vectorStore[a]) < IndexOf(vectorStore[b])

\* the text holds a character that trim() keeps: it is not the text of as many
\* spaces
HasInk(s) == s # Rep(" ", Len(s))

\* C18: the chunk of every embedding round-trip in flight for an upload is
\* non-blank, that round-trip being the last the upload has issued, and every
\* record in the store has a non-blank text.
C18_NoBlankEmbedded ==
    /\ \A u \in Uploads : up[u].pc = "embedding" =>
          /\ up[u].calls # <<>>
          /\ up[u].calls[Len(up[u].calls)] = [op |-> "embed", i |-> up[u].i]
          /\ HasInk(up[u].chunks[up[u].i + 1])
    /\ \A u \in Uploads : up[u].pc # "embedding" =>
          \/ up[u].calls = <<>>
          \/ up[u].calls[Len(up[u].calls)].op # "embed"
    /\ \A k \in 1..Len(vectorStore) : HasInk(vectorStore[k].text)

\* an upload has gone past a blank chunk: its first record is in the store and
\* the embedding of its third chunk is in flight
C18_Witness ==
    \E u \in Uploads :
        /\ up[u].pc = "embedding" /\ up[u].i = 2
        /\ ~HasInk(up[u].chunks[2])
        /\ Len(up[u].calls) = 3
        /\ vectorStore # <<>>

\* the chunk indexes of the embedding round-trips in calls, in the order issued,
\* when issue and return alternate
Issued(calls) == [k \in 1..((Len(calls) + 1) \div 2) |-> calls[2 * k - 1].i]

\* the number of round-trips in calls that returned an embedding
Returns(calls) == Cardinality({k \in 1..Len(calls) : calls[k].op = "ok"})

\* the indexes, up to last, of the non-blank chunks
InkedUpTo(chunks, last) == {k \in 0..last : HasInk(chunks[k + 1])}

\* the indexes in the sequence s
Range(s) == {s[k] : k \in 1..Len(s)}

\* issue and return alternate in the round-trips of upload u: a round-trip is
\* issued only when the one before it has returned
Serial(u) ==
    \A k \in 1..Len(up[u].calls) :
        IF k % 2 = 1 THEN up[u].calls[k].op = "embed"
        ELSE /\ up[u].calls[k].op \in {"ok", "fail"}
             /\ up[u].calls[k].i = up[u].calls[k - 1].i

\* C19: after every step of an upload run, the run's embedding round-trips
\* alternate issue and return, so at most one is in flight; they are issued by
\* strictly increasing chunk index, and while one is in flight the chunks issued
\* so far are exactly the non-blank chunks up to the current one; the number of
\* records the run has pushed is the number of round-trips that have returned;
\* and a run that answers success has issued one round-trip for each non-blank
\* chunk of its document, all of them returned.
C19_SerialOnePerChunk ==
    [][\A u \in Uploads : up'[u] # up[u] =>
         /\ Serial(u)'
         /\ \A a, b \in 1..Len(Issued(up'[u].calls)) :
               a < b => Issued(up'[u].calls)[a] < Issued(up'[u].calls)[b]
         /\ Len(up'[u].pushed) = Returns(up'[u].calls)
         /\ up'[u].pc = "embedding" =>
               Range(Issued(up'[u].calls)) = InkedUpTo(up'[u].chunks, up'[u].i)
         /\ Completes(u) =>
               /\ Range(Issued(up'[u].calls)) = InkedUpTo(up[u].chunks, Len(up[u].chunks) - 1)
               /\ Len(up'[u].calls) = 2 * Returns(up'[u].calls)]_vars

\* an upload of a document with a blank chunk in the middle has answered success
\* after two round-trips, for chunks 0 and 2, while another upload was in flight
C19_Witness ==
    \E u \in Uploads :
        /\ up[u].pc = "done" /\ up[u].res.status = 200
        /\ ~up[u].alone
        /\ Issued(up[u].calls) = <<0, 2>>
        /\ Len(up[u].pushed) = 2

----------------------------------------------------------------------------
(* Properties of the streaming client *)

\* C20 (as claimed): when handleFileUpload has read a status record with status
\* 'error', it ends with the message list holding the one error message for that
\* record's error text, and with isIndexing false.
C20_ErrorRecordShown ==
    (client.pc = "done" /\ client.errors # <<>>) =>
        /\ client.messages = <<ErrorMessage(client.errors[1])>>
        /\ ~client.isIndexing

====
